---- MODULE Spec2Model ----
(***************************************************************************)
(* Model of backend/server.py: the FastAPI application that caches agent   *)
(* instances per type, dispatches chat / search / capabilities requests to *)
(* them, and aggregates the Pendle market listing.                         *)
(*                                                                         *)
(* Handlers are coroutines on one event loop: a handler runs atomically    *)
(* from one suspension point (an await on I/O) to the next.  Every action  *)
(* below is one such segment.                                              *)
(***************************************************************************)
EXTENDS Integers, Sequences, FiniteSets, TLC

VARIABLES phase, app_state, ctorCalls, configReads, reqs, vault

vars == <<phase, app_state, ctorCalls, configReads, reqs, vault>>

\* ------------------------------------------------------------------ bounds
MaxReqs == 2
MaxMarkets == 2

Requests == 1..MaxReqs

\* ---------------------------------------------------------- Python values
PyNone == [k |-> "none"]
PyInt(n) == [k |-> "int", n |-> n]
\* an integer literal too large for a double (json.loads keeps it an int)
PyHuge == [k |-> "hugeint"]
\* a str as its sequence of characters
PyStr(cs) == [k |-> "str", cs |-> cs]
\* a dict as a function from its keys
PyDict(f) == [k |-> "dict", f |-> f]
\* a list as a sequence
PyList(s) == [k |-> "list", s |-> s]

EmptyDict == PyDict(<<>>)

Ok(v) == [ok |-> TRUE, v |-> v]
Raise(exc, msg) == [ok |-> FALSE, exc |-> exc, msg |-> msg]

\* dict.get(key, default)
DictGet(d, key, default) == IF key \in DOMAIN d.f THEN d.f[key] ELSE default

\* truth value of a Python object, as `x or 0` tests it
Truthy(v) ==
    CASE v.k = "none" -> FALSE
      [] v.k = "int" -> v.n # 0
      [] v.k = "hugeint" -> TRUE
      [] v.k = "str" -> v.cs # <<>>
      [] v.k = "dict" -> DOMAIN v.f # {}
      [] v.k = "list" -> v.s # <<>>

\* x or y
PyOr(x, y) == IF Truthy(x) THEN x ELSE y

Digits == <<"0", "1", "2", "3", "4", "5", "6", "7", "8", "9">>

IsDigit(c) == \E i \in 1..10 : Digits[i] = c

DigitVal(c) == (CHOOSE i \in 1..10 : Digits[i] = c) - 1

RECURSIVE DigitsVal(_)
DigitsVal(cs) ==
    IF cs = <<>> THEN 0
    ELSE 10 * DigitsVal(SubSeq(cs, 1, Len(cs) - 1)) + DigitVal(cs[Len(cs)])

AllDigits(cs) == cs # <<>> /\ \A i \in 1..Len(cs) : IsDigit(cs[i])

\* the decimal literal a str holds: an optional sign and at least one digit
ParseDecimal(cs) ==
    IF cs # <<>> /\ cs[1] = "-" /\ AllDigits(Tail(cs)) THEN Ok(0 - DigitsVal(Tail(cs)))
    ELSE IF AllDigits(cs) THEN Ok(DigitsVal(cs))
    ELSE Raise("ValueError", "invalid literal")

\* int(x)
int(v) ==
    CASE v.k = "int" -> Ok(v.n)
      [] v.k = "hugeint" -> Ok(v)
      [] v.k = "str" -> ParseDecimal(v.cs)
      [] OTHER -> Raise("TypeError", "int() argument must be a string or a real number")

\* ------------------------------------------------------------- text values
\* A text built by an f-string is the sequence of its pieces; str(exc) is
\* the one piece msg.  The text is empty when every piece is.
IsEmptyText(t) == \A i \in 1..Len(t) : t[i] = ""

NoError == [k |-> "none"]
Err(t) == [k |-> "str", t |-> t]

\* -------------------------------------------------------------- the agents
ChatAgent(config, serial) == [cls |-> "ChatAgent", id |-> serial, config |-> config]
SearchAgent(config, serial) == [cls |-> "SearchAgent", id |-> serial, config |-> config]

AgentConfig == [k |-> "AgentConfig"]

get_capabilities(agent) ==
    IF agent.cls = "SearchAgent" THEN <<"web_search", "summarize">> ELSE <<"chat">>

\* what ChatRequest.agent_type can hold: any str
AgentTypeInputs == {"chat", "search", "bogus"}

\* -------------------------------------------------------------- the cache
\* hasattr(request.app.state, "agent_cache") guards the creation of the dict
get_agent_cache(state) ==
    IF "agent_cache" \notin DOMAIN state
        THEN state @@ ("agent_cache" :> <<>>)
        ELSE state

InCache_never(cache, agent_type) == FALSE

\* `agent_type in cache`
InCache(cache, agent_type) == agent_type \in DOMAIN cache

Store_reset(state, agent_type, agent) ==
    [state EXCEPT !["agent_cache"] = (agent_type :> agent)]

\* cache[agent_type] = agent
Store(state, agent_type, agent) ==
    [state EXCEPT !["agent_cache"] =
        [t \in DOMAIN @ \cup {agent_type} |-> IF t = agent_type THEN agent ELSE @[t]]]

get_or_create_agent_fallback(env, agent_type) ==
    LET st == get_agent_cache(env.state)
        cache == st["agent_cache"]
    IN  IF InCache(cache, agent_type)
        THEN [env |-> [env EXCEPT !.state = st], ret |-> Ok(cache[agent_type])]
        ELSE
        LET cls == IF agent_type = "search" THEN "SearchAgent" ELSE "ChatAgent"
            n == env.ctorCalls[cls] + 1
            agent == [cls |-> cls, id |-> n, config |-> st["agent_config"]]
        IN  [env |-> [state |-> Store(st, agent_type, agent),
                      ctorCalls |-> [env.ctorCalls EXCEPT ![cls] = n],
                      configReads |-> [env.configReads EXCEPT ![agent_type] = @ + 1]],
             ret |-> Ok(agent)]

\* env = [state, ctorCalls, configReads]: app.state with the probes that
\* count constructor calls per class and reads of app.state.agent_config per
\* requested type; the result carries the new env and either the agent
\* returned or the HTTPException raised
get_or_create_agent(env, agent_type) ==
    LET st == get_agent_cache(env.state)
        cache == st["agent_cache"]
    IN  IF InCache(cache, agent_type)
        THEN [env |-> [env EXCEPT !.state = st], ret |-> Ok(cache[agent_type])]
        ELSE
        LET config == st["agent_config"]
            reads == [env.configReads EXCEPT ![agent_type] = @ + 1]
        IN  IF agent_type = "search"
            THEN LET n == env.ctorCalls["SearchAgent"] + 1
                     st2 == Store(st, agent_type, SearchAgent(config, n))
                 IN  [env |-> [state |-> st2,
                               ctorCalls |-> [env.ctorCalls EXCEPT !["SearchAgent"] = n],
                               configReads |-> reads],
                      ret |-> Ok(st2["agent_cache"][agent_type])]
            ELSE IF agent_type = "chat"
            THEN LET n == env.ctorCalls["ChatAgent"] + 1
                     st2 == Store(st, agent_type, ChatAgent(config, n))
                 IN  [env |-> [state |-> st2,
                               ctorCalls |-> [env.ctorCalls EXCEPT !["ChatAgent"] = n],
                               configReads |-> reads],
                      ret |-> Ok(st2["agent_cache"][agent_type])]
            ELSE [env |-> [state |-> st, ctorCalls |-> env.ctorCalls, configReads |-> reads],
                  ret |-> [ok |-> FALSE, exc |-> "HTTPException", status |-> 400,
                           detail |-> <<"Unknown agent type '", agent_type, "'">>]]

Env == [state |-> app_state, ctorCalls |-> ctorCalls, configReads |-> configReads]

SetEnv(env) ==
    /\ app_state' = env.state
    /\ ctorCalls' = env.ctorCalls
    /\ configReads' = env.configReads

\* ------------------------------------------------------------ the lifespan
Init ==
    /\ phase = "init"
    /\ app_state = <<>>
    /\ ctorCalls = [c \in {"ChatAgent", "SearchAgent"} |-> 0]
    /\ configReads = [t \in AgentTypeInputs |-> 0]
    /\ reqs = [r \in Requests |-> [kind |-> "idle", pc |-> "idle"]]
    /\ vault = [pc |-> "idle"]

lifespan ==
    /\ phase = "init"
    /\ phase' = "running"
    /\ app_state' = ("mongo_client" :> [k |-> "client"]) @@ ("db" :> [k |-> "db"])
                    @@ ("agent_config" :> AgentConfig) @@ ("agent_cache" :> <<>>)
    /\ UNCHANGED <<ctorCalls, configReads, reqs, vault>>

\* ------------------------------------------------- the agent collaborators
\* AgentResult as execute() returns it: success implies no error; failure
\* implies empty content and an error
MetaKeys == {"tool_run_count", "tools_used"}

MetaValues == {PyNone, PyInt(0), PyInt(2), PyInt(0 - 1), PyStr(<<"3">>), PyStr(<<"x">>)}

Metadatas == {PyDict(f) : f \in UNION {[S -> MetaValues] : S \in SUBSET MetaKeys}}

AgentResult(success, content, metadata, error) ==
    [success |-> success, content |-> content, metadata |-> metadata, error |-> error]

FailedResults == {AgentResult(FALSE, "", EmptyDict, Err(<<"agent failed">>))}

ChatResults ==
    {AgentResult(TRUE, "hello", m, NoError) :
        m \in {EmptyDict, PyNone, PyDict([tool_run_count |-> PyInt(1)])}}
    \cup FailedResults

SearchResults ==
    {AgentResult(TRUE, "summary", m, NoError) : m \in Metadatas \cup {PyNone}}
    \cup FailedResults

\* exceptions execute() can raise, with the text str(exc) gives
Faults == {[exc |-> "RuntimeError", msg |-> "boom"], [exc |-> "TimeoutError", msg |-> ""]}

Messages == {"hi"}
Queries == {"pendle"}

\* ------------------------------------------------------- response models
\* pydantic validates the fields on construction: metadata must be a dict
ChatResponse(success, response, agent_type, capabilities, metadata, error) ==
    IF metadata.k # "dict"
    THEN Raise("ValidationError", "1 validation error for ChatResponse")
    ELSE Ok([success |-> success, response |-> response, agent_type |-> agent_type,
             capabilities |-> capabilities, metadata |-> metadata, error |-> error])

SearchResponse(success, query, summary, search_results, sources_count, error) ==
    [success |-> success, query |-> query, summary |-> summary,
     search_results |-> search_results, sources_count |-> sources_count, error |-> error]

Http200(body) == [status |-> 200, body |-> body]

\* ---------------------------------------------------------------- /chat
chat_fault_generic(agent_type, msg) ==
    ChatResponse(FALSE, "", agent_type, <<>>, EmptyDict, Err(<<"Internal server error">>)).v

\* the except Exception branch of chat_with_agent
chat_fault(agent_type, msg) ==
    ChatResponse(FALSE, "", agent_type, <<>>, EmptyDict, Err(<<msg>>)).v

\* the body built once agent.execute(message) has returned `response`
chat_result(agent, agent_type, response) ==
    LET built == ChatResponse(response.success, response.content, agent_type,
                              get_capabilities(agent), response.metadata, response.error)
    IN  IF built.ok THEN built.v ELSE chat_fault(agent_type, built.msg)

\* until the await of agent.execute: the agent is resolved, or the
\* HTTPException of an unknown type is re-raised
chat_with_agent(r) ==
    /\ phase = "running"
    /\ reqs[r].kind = "idle"
    /\ \E agent_type \in AgentTypeInputs, message \in Messages :
        LET g == get_or_create_agent(Env, agent_type)
        IN  /\ SetEnv(g.env)
            /\ reqs' = [reqs EXCEPT ![r] =
                    IF g.ret.ok
                    THEN [kind |-> "chat", pc |-> "execute", agent_type |-> agent_type,
                          message |-> message, got |-> (agent_type :> g.ret.v)]
                    ELSE [kind |-> "chat", pc |-> "done", agent_type |-> agent_type,
                          message |-> message, got |-> <<>>,
                          outcome |-> [status |-> g.ret.status, detail |-> g.ret.detail]]]
    /\ UNCHANGED <<phase, vault>>

\* agent.execute(message) returns an AgentResult
chat_execute_returns(r) ==
    /\ reqs[r].kind = "chat" /\ reqs[r].pc = "execute"
    /\ \E response \in ChatResults :
        reqs' = [reqs EXCEPT ![r] =
            [kind |-> "chat", pc |-> "done", agent_type |-> @.agent_type,
             message |-> @.message, got |-> @.got,
             executed |-> Ok(response),
             outcome |-> Http200(chat_result(@.got[@.agent_type], @.agent_type, response))]]
    /\ UNCHANGED <<phase, app_state, ctorCalls, configReads, vault>>

\* agent.execute(message) raises
chat_execute_raises(r) ==
    /\ reqs[r].kind = "chat" /\ reqs[r].pc = "execute"
    /\ \E exc \in Faults :
        reqs' = [reqs EXCEPT ![r] =
            [kind |-> "chat", pc |-> "done", agent_type |-> @.agent_type,
             message |-> @.message, got |-> @.got,
             executed |-> Raise(exc.exc, exc.msg),
             outcome |-> Http200(chat_fault(@.agent_type, exc.msg))]]
    /\ UNCHANGED <<phase, app_state, ctorCalls, configReads, vault>>

\* --------------------------------------------------------------- /search
search_fault(query, msg) == SearchResponse(FALSE, query, "", PyNone, 0, Err(<<msg>>))

\* int(metadata.get("tool_run_count", metadata.get("tools_used", 0)) or 0)
sources_count(metadata) ==
    int(PyOr(DictGet(metadata, "tool_run_count", DictGet(metadata, "tools_used", PyInt(0))),
             PyInt(0)))

search_result_noerror(query, result) ==
    IF result.success
    THEN LET metadata == PyOr(result.metadata, EmptyDict)
             n == sources_count(metadata)
         IN  IF n.ok
             THEN SearchResponse(TRUE, query, result.content, metadata, n.v, NoError)
             ELSE search_fault(query, n.msg)
    ELSE SearchResponse(FALSE, query, "", PyNone, 0, NoError)

\* the body built once search_agent.execute(...) has returned `result`
search_result(query, result) ==
    IF result.success
    THEN LET metadata == PyOr(result.metadata, EmptyDict)
             n == sources_count(metadata)
         IN  IF n.ok
             THEN SearchResponse(TRUE, query, result.content, metadata, n.v, NoError)
             ELSE search_fault(query, n.msg)
    ELSE SearchResponse(FALSE, query, "", PyNone, 0, result.error)

search_and_summarize(r) ==
    /\ phase = "running"
    /\ reqs[r].kind = "idle"
    /\ \E query \in Queries :
        LET g == get_or_create_agent(Env, "search")
        IN  /\ SetEnv(g.env)
            /\ reqs' = [reqs EXCEPT ![r] =
                    IF g.ret.ok
                    THEN [kind |-> "search", pc |-> "execute", query |-> query,
                          got |-> ("search" :> g.ret.v)]
                    ELSE [kind |-> "search", pc |-> "done", query |-> query, got |-> <<>>,
                          outcome |-> [status |-> g.ret.status, detail |-> g.ret.detail]]]
    /\ UNCHANGED <<phase, vault>>

search_execute_returns(r) ==
    /\ reqs[r].kind = "search" /\ reqs[r].pc = "execute"
    /\ \E result \in SearchResults :
        reqs' = [reqs EXCEPT ![r] =
            [kind |-> "search", pc |-> "done", query |-> @.query, got |-> @.got,
             executed |-> Ok(result),
             outcome |-> Http200(search_result(@.query, result))]]
    /\ UNCHANGED <<phase, app_state, ctorCalls, configReads, vault>>

search_execute_raises(r) ==
    /\ reqs[r].kind = "search" /\ reqs[r].pc = "execute"
    /\ \E exc \in Faults :
        reqs' = [reqs EXCEPT ![r] =
            [kind |-> "search", pc |-> "done", query |-> @.query, got |-> @.got,
             executed |-> Raise(exc.exc, exc.msg),
             outcome |-> Http200(search_fault(@.query, exc.msg))]]
    /\ UNCHANGED <<phase, app_state, ctorCalls, configReads, vault>>

\* ---------------------------------------------------- /agents/capabilities
\* no await between the two resolutions: the handler is one segment
get_agent_capabilities(r) ==
    /\ phase = "running"
    /\ reqs[r].kind = "idle"
    /\ LET g1 == get_or_create_agent(Env, "search")
           g2 == get_or_create_agent(g1.env, "chat")
       IN  IF ~g1.ret.ok
           THEN /\ SetEnv(g1.env)
                /\ reqs' = [reqs EXCEPT ![r] =
                        [kind |-> "capabilities", pc |-> "done", got |-> <<>>,
                         outcome |-> [status |-> g1.ret.status, detail |-> g1.ret.detail]]]
           ELSE IF ~g2.ret.ok
           THEN /\ SetEnv(g2.env)
                /\ reqs' = [reqs EXCEPT ![r] =
                        [kind |-> "capabilities", pc |-> "done", got |-> ("search" :> g1.ret.v),
                         outcome |-> [status |-> g2.ret.status, detail |-> g2.ret.detail]]]
           ELSE /\ SetEnv(g2.env)
                /\ reqs' = [reqs EXCEPT ![r] =
                        [kind |-> "capabilities", pc |-> "done",
                         got |-> ("search" :> g1.ret.v) @@ ("chat" :> g2.ret.v),
                         outcome |-> Http200(
                            [success |-> TRUE,
                             capabilities |->
                                [search_agent |-> get_capabilities(g1.ret.v),
                                 chat_agent |-> get_capabilities(g2.ret.v)]])]]
    /\ UNCHANGED <<phase, vault>>

\* --------------------------------------------------------------- /vaults
\* exception classes and the classes an except clause names
Subclasses(cls) ==
    CASE cls = "ValueError" -> {"ValueError", "ValidationError", "JSONDecodeError"}
      [] cls = "HTTPError" -> {"HTTPError", "ReadTimeout", "ConnectError", "HTTPStatusError"}
      [] OTHER -> {cls}

IsInstance(exc, classes) == \E c \in classes : exc \in Subclasses(c)

\* float(x); a double is modelled by the integer it holds (the inputs drawn
\* have no fraction, exponent, nan or inf forms)
float(v) ==
    CASE v.k = "int" -> Ok(v.n)
      [] v.k = "hugeint" -> Raise("OverflowError", "int too large to convert to float")
      [] v.k = "str" -> ParseDecimal(v.cs)
      [] OTHER -> Raise("TypeError", "float() argument must be a string or a real number")

\* obj.get(key, default): only a dict has the method
Get(obj, key, default) ==
    IF obj.k = "dict" THEN Ok(DictGet(obj, key, default))
    ELSE Raise("AttributeError", "object has no attribute 'get'")

StrFields == <<"address", "name", "symbol", "expiry">>
StrDefaults == [address |-> PyStr(<<>>), name |-> PyStr(<<"Unknown">>),
                symbol |-> PyStr(<<>>), expiry |-> PyStr(<<>>)]

\* the float fields of VaultData with the key of `details` each reads, in
\* the order the call evaluates them
FloatFields == <<"volume_24h", "liquidity", "implied_apy", "underlying_apy",
                 "lp_apy", "pt_price", "yt_price">>
DetailKeys == [volume_24h |-> "volume24h", liquidity |-> "liquidity",
               implied_apy |-> "impliedApy", underlying_apy |-> "underlyingApy",
               lp_apy |-> "lpApy", pt_price |-> "ptPrice", yt_price |-> "ytPrice"]

\* pydantic validation of VaultData: the str fields must hold a str
VaultData(strs, chain_id, floats) ==
    IF \E i \in 1..Len(StrFields) : strs[StrFields[i]].k # "str"
    THEN Raise("ValidationError", "validation error for VaultData")
    ELSE Ok([address |-> strs["address"], name |-> strs["name"],
             symbol |-> strs["symbol"], expiry |-> strs["expiry"],
             chain_id |-> chain_id,
             volume_24h |-> floats["volume_24h"], liquidity |-> floats["liquidity"],
             implied_apy |-> floats["implied_apy"],
             underlying_apy |-> floats["underlying_apy"], lp_apy |-> floats["lp_apy"],
             pt_price |-> floats["pt_price"], yt_price |-> floats["yt_price"]])

\* the body of the inner try for one market: the value built or the first
\* exception raised
parse_market(market, chain_id) ==
    LET details == Get(market, "details", EmptyDict)
    IN  IF ~details.ok THEN details
        ELSE
        LET strs == [f \in DOMAIN StrDefaults |-> DictGet(market, f, StrDefaults[f])]
            raw == [f \in DOMAIN DetailKeys |-> Get(details.v, DetailKeys[f], PyInt(0))]
            conv == [f \in DOMAIN DetailKeys |->
                        IF raw[f].ok THEN float(raw[f].v) ELSE raw[f]]
            bad == {i \in 1..Len(FloatFields) : ~conv[FloatFields[i]].ok}
        IN  IF bad # {}
            THEN conv[FloatFields[CHOOSE i \in bad : \A j \in bad : i <= j]]
            ELSE VaultData(strs, chain_id, [f \in DOMAIN DetailKeys |-> conv[f].v])

\* what the inner except clause names
InnerCaught == {"ValueError", "TypeError", "KeyError"}

\* the for loop over the markets: the vaults collected, or the exception
\* that leaves the loop
RECURSIVE parse_markets(_, _, _)
parse_markets(markets, chain_id, vaults) ==
    IF markets = <<>> THEN Ok(vaults)
    ELSE LET r == parse_market(Head(markets), chain_id)
         IN  IF r.ok THEN parse_markets(Tail(markets), chain_id, Append(vaults, r.v))
             ELSE IF IsInstance(r.exc, InnerCaught)
                  THEN parse_markets(Tail(markets), chain_id, vaults)
                  ELSE r

VaultsResponse(success, vaults, total, error) ==
    [success |-> success, vaults |-> vaults, total |-> total, error |-> error]

vaults_http_error_bare(msg) == VaultsResponse(FALSE, <<>>, 0, Err(<<msg>>))

\* except httpx.HTTPError
vaults_http_error(msg) == VaultsResponse(FALSE, <<>>, 0, Err(<<"Failed to fetch vaults: ", msg>>))

\* except Exception
vaults_unexpected(msg) == VaultsResponse(FALSE, <<>>, 0, Err(<<msg>>))

vaults_handle(r) ==
    IF r.ok THEN r.v
    ELSE IF IsInstance(r.exc, {"HTTPError"}) THEN vaults_http_error(r.msg)
    ELSE vaults_unexpected(r.msg)

\* response.raise_for_status()
raise_for_status(response) ==
    IF response.status_code >= 200 /\ response.status_code <= 299
    THEN Ok(response)
    ELSE Raise("HTTPStatusError", "error status for url")

\* the handler from the provider's response on: status check, body, loop
vaults_from_response(response, chain_id) ==
    LET checked == raise_for_status(response)
    IN  IF ~checked.ok THEN checked
        ELSE IF ~response.json.ok THEN response.json
        ELSE LET markets == Get(response.json.v, "markets", PyList(<<>>))
             IN  IF ~markets.ok THEN markets
                 ELSE IF markets.v.k # "list"
                 THEN Raise("TypeError", "object is not iterable")
                 ELSE LET vs == parse_markets(markets.v.s, chain_id, <<>>)
                      IN  IF vs.ok THEN Ok(VaultsResponse(TRUE, vs.v, Len(vs.v), NoError))
                          ELSE vs

\* ------------------------------------------------------ the provider inputs
Market(address, details) ==
    PyDict([address |-> address, name |-> PyStr(<<"PT">>), details |-> details])

Details(liquidity) == PyDict([liquidity |-> liquidity, volume24h |-> PyInt(7)])

MarketInputs ==
    { Market(PyStr(<<"0xA">>), Details(PyInt(5))),
      Market(PyStr(<<"0xB">>), Details(PyStr(<<"3">>))),
      PyDict([address |-> PyStr(<<"0xC">>)]),
      Market(PyStr(<<"0xD">>), Details(PyStr(<<"not-a-number">>))),
      Market(PyStr(<<"0xE">>), Details(PyNone)),
      Market(PyInt(7), Details(PyInt(5))),
      Market(PyStr(<<"0xF">>), PyNone),
      Market(PyStr(<<"0xG">>), Details(PyHuge)),
      PyNone }

MarketLists == UNION {[1..n -> MarketInputs] : n \in 0..MaxMarkets}

JsonBodies ==
    {Ok(PyDict([markets |-> PyList(ms)])) : ms \in MarketLists}
    \cup {Ok(EmptyDict), Ok(PyDict([markets |-> PyNone])), Ok(PyList(<<>>)),
          Raise("JSONDecodeError", "Expecting value")}

ProviderResponses ==
    {[status_code |-> 200, json |-> b] : b \in JsonBodies}
    \cup {[status_code |-> c, json |-> Raise("JSONDecodeError", "Expecting value")] :
            c \in {302, 404, 500}}

\* what client.get raises instead of returning: a timeout after 30 s or a
\* transport failure
HttpFaults == {[exc |-> "ReadTimeout", msg |-> ""],
               [exc |-> "ConnectError", msg |-> "All connection attempts failed"]}

ChainIds == {1, 42161}

\* until the await of client.get
get_pendle_vaults ==
    /\ phase = "running"
    /\ vault.pc = "idle"
    /\ \E chain_id \in ChainIds : vault' = [pc |-> "get", chain_id |-> chain_id]
    /\ UNCHANGED <<phase, app_state, ctorCalls, configReads, reqs>>

\* client.get raises
vaults_get_raises ==
    /\ vault.pc = "get"
    /\ \E exc \in HttpFaults :
        vault' = [pc |-> "done", chain_id |-> vault.chain_id,
                  provider |-> Raise(exc.exc, exc.msg),
                  outcome |-> Http200(vaults_handle(Raise(exc.exc, exc.msg)))]
    /\ UNCHANGED <<phase, app_state, ctorCalls, configReads, reqs>>

\* client.get returns a response
vaults_get_returns ==
    /\ vault.pc = "get"
    /\ \E response \in ProviderResponses :
        vault' = [pc |-> "done", chain_id |-> vault.chain_id,
                  provider |-> Ok(response),
                  outcome |-> Http200(vaults_handle(
                                vaults_from_response(response, vault.chain_id)))]
    /\ UNCHANGED <<phase, app_state, ctorCalls, configReads, reqs>>

VaultNext ==
    \/ lifespan
    \/ get_pendle_vaults
    \/ vaults_get_raises
    \/ vaults_get_returns

VaultSpec == Init /\ [][VaultNext]_vars

\* ------------------------------------------------------------------ Next
Next ==
    \/ lifespan
    \/ \E r \in Requests : chat_with_agent(r)
    \/ \E r \in Requests : chat_execute_returns(r)
    \/ \E r \in Requests : chat_execute_raises(r)
    \/ \E r \in Requests : search_and_summarize(r)
    \/ \E r \in Requests : search_execute_returns(r)
    \/ \E r \in Requests : search_execute_raises(r)
    \/ \E r \in Requests : get_agent_capabilities(r)

Spec == Init /\ [][Next]_vars

\* ======================================================== the properties
Recognized == {"chat", "search"}

ClassOf(t) == IF t = "search" THEN "SearchAgent" ELSE "ChatAgent"

Cache == app_state["agent_cache"]

\* the requests that have resolved agent type t
Holders(t) == {r \in Requests : reqs[r].kind # "idle" /\ t \in DOMAIN reqs[r].got}

Done(r, kind) == reqs[r].kind = kind /\ reqs[r].pc = "done"

\* C1: whatever the interleaving of the requests that resolve a recognized
\* type T, T's constructor has run exactly once and each of them holds the
\* instance the cache holds for T.
C1_OneInstancePerType ==
    \A t \in Recognized :
        /\ ctorCalls[ClassOf(t)] <= 1
        /\ Holders(t) # {} =>
            /\ ctorCalls[ClassOf(t)] = 1
            /\ \A r \in Holders(t) : reqs[r].got[t] = Cache[t]

\* two requests are in flight at once, both awaiting execute on one type
C1_Witness ==
    \E r1, r2 \in Requests :
        /\ r1 # r2
        /\ reqs[r1].kind \in {"chat", "search"} /\ reqs[r1].pc = "execute"
        /\ reqs[r2].kind \in {"chat", "search"} /\ reqs[r2].pc = "execute"
        /\ reqs[r1].kind # reqs[r2].kind
        /\ "search" \in DOMAIN reqs[r1].got /\ "search" \in DOMAIN reqs[r2].got
        /\ ctorCalls["SearchAgent"] = 1

\* C2: a call of _get_or_create_agent(T) made when T is already cached
\* returns the stored instance, runs no constructor of T, does not read the
\* config for T and leaves the entry as it is; so N calls in sequence give
\* one instance and one construction.
C2_RepeatedCallReturnsStored ==
    [][\A r \in Requests : \A t \in Recognized :
        (/\ phase = "running"
         /\ t \in DOMAIN Cache
         /\ reqs[r].kind = "idle" /\ reqs'[r].kind # "idle"
         /\ t \in DOMAIN reqs'[r].got)
        => /\ reqs'[r].got[t] = Cache[t]
           /\ app_state'["agent_cache"][t] = Cache[t]
           /\ ctorCalls'[ClassOf(t)] = 1 /\ ctorCalls[ClassOf(t)] = 1
           /\ configReads'[t] = configReads[t]]_vars

\* a request has completed and a later one has resolved the same type
C2_Witness ==
    \E r1, r2 \in Requests :
        /\ r1 # r2
        /\ Done(r1, "chat") /\ "chat" \in DOMAIN reqs[r1].got
        /\ reqs[r2].kind = "chat" /\ "chat" \in DOMAIN reqs[r2].got
        /\ reqs[r2].got["chat"] = reqs[r1].got["chat"]
        /\ ctorCalls["ChatAgent"] = 1 /\ configReads["chat"] = 1

\* C3: a chat request whose agent_type is neither "chat" nor "search" ends
\* with status 400 and a detail naming the type, holds no agent, and the
\* step that serves it constructs nothing and leaves the cache unchanged.
C3_UnknownTypeRejected ==
    [][\A r \in Requests :
        (/\ reqs[r].kind = "idle" /\ reqs'[r].kind = "chat"
         /\ reqs'[r].agent_type \notin Recognized)
        => /\ reqs'[r].pc = "done"
           /\ reqs'[r].outcome.status = 400
           /\ \E i \in 1..Len(reqs'[r].outcome.detail) :
                reqs'[r].outcome.detail[i] = reqs'[r].agent_type
           /\ reqs'[r].got = <<>>
           /\ ctorCalls' = ctorCalls
           /\ app_state'["agent_cache"] = Cache]_vars

\* an unknown type was rejected while the cache already held an agent
C3_Witness ==
    \E r \in Requests :
        /\ Done(r, "chat") /\ reqs[r].agent_type = "bogus"
        /\ reqs[r].outcome.status = 400
        /\ DOMAIN Cache # {}

HasError(body) == body.error.k = "str" /\ ~IsEmptyText(body.error.t)

ReturnedFailure(r) ==
    /\ reqs[r].pc = "done" /\ "executed" \in DOMAIN reqs[r]
    /\ reqs[r].executed.ok /\ ~reqs[r].executed.v.success

\* C5: an AgentResult with success false maps to a ChatResponse with an
\* empty response and a non-empty error, and to a SearchResponse with an
\* empty summary and a non-empty error.
C5_FailureMapping ==
    \A r \in Requests :
        ReturnedFailure(r) =>
            /\ reqs[r].outcome.status = 200
            /\ reqs[r].outcome.body.success = FALSE
            /\ HasError(reqs[r].outcome.body)
            /\ reqs[r].kind = "chat" => reqs[r].outcome.body.response = ""
            /\ reqs[r].kind = "search" => reqs[r].outcome.body.summary = ""

C5_Witness ==
    \E r1, r2 \in Requests :
        /\ reqs[r1].kind = "chat" /\ ReturnedFailure(r1)
        /\ reqs[r2].kind = "search" /\ ReturnedFailure(r2)

ReturnedSuccess(r) ==
    /\ Done(r, "search") /\ "executed" \in DOMAIN reqs[r]
    /\ reqs[r].executed.ok /\ reqs[r].executed.v.success

\* the metadata value that counts: tool_run_count if present, else
\* tools_used if present, else 0
FirstPresent(result) ==
    LET m == result.metadata
    IN  IF m.k # "dict" THEN PyInt(0)
        ELSE IF "tool_run_count" \in DOMAIN m.f THEN m.f["tool_run_count"]
        ELSE IF "tools_used" \in DOMAIN m.f THEN m.f["tools_used"]
        ELSE PyInt(0)

\* the count the values drawn stand for, where they stand for one
NumericValue(v) ==
    CASE v = PyNone -> 0
      [] v.k = "int" -> v.n
      [] v = PyStr(<<"3">>) -> 3

IsNumeric(v) == v = PyNone \/ v.k = "int" \/ v = PyStr(<<"3">>)

\* C6: a successful search result gives success true and the
\* first-present count, with a negative or non-numeric value giving 0.
C6_SourcesCountCoerced ==
    \A r \in Requests :
        ReturnedSuccess(r) =>
            LET v == FirstPresent(reqs[r].executed.v)
                body == reqs[r].outcome.body
            IN  /\ body.success = TRUE
                /\ body.sources_count =
                    (IF IsNumeric(v) /\ NumericValue(v) >= 0 THEN NumericValue(v) ELSE 0)

\* the provider answered 2xx with a body that lists markets
Listed ==
    /\ vault.pc = "done" /\ vault.provider.ok
    /\ raise_for_status(vault.provider.v).ok
    /\ vault.provider.v.json.ok
    /\ vault.provider.v.json.v.k = "dict"
    /\ "markets" \in DOMAIN vault.provider.v.json.v.f
    /\ vault.provider.v.json.v.f["markets"].k = "list"

ListedMarkets == vault.provider.v.json.v.f["markets"].s

\* the entries that coerce, coerced, in the provider's order
RECURSIVE Coerced(_, _)
Coerced(markets, chain_id) ==
    IF markets = <<>> THEN <<>>
    ELSE LET r == parse_market(Head(markets), chain_id)
         IN  (IF r.ok THEN <<r.v>> ELSE <<>>) \o Coerced(Tail(markets), chain_id)

\* C7: with K entries that coerce and M that do not, the listing answers
\* success true, total K and exactly the K coerced entries in order.
C7_PartialTolerance ==
    Listed =>
        LET body == vault.outcome.body
            good == Coerced(ListedMarkets, vault.chain_id)
        IN  /\ body.success = TRUE
            /\ body.total = Len(good)
            /\ body.vaults = good

\* C8: a timeout, a transport failure or a non-2xx status gives a normal
\* VaultsResponse with success false, no vaults, total 0 and a non-empty
\* error.
C8_TransportFailure ==
    (/\ vault.pc = "done"
     /\ (~vault.provider.ok \/ ~raise_for_status(vault.provider.v).ok))
    => /\ vault.outcome.status = 200
       /\ vault.outcome.body.success = FALSE
       /\ vault.outcome.body.vaults = <<>>
       /\ vault.outcome.body.total = 0
       /\ HasError(vault.outcome.body)

\* the request timed out: str(exc) is empty
C8_Witness ==
    /\ vault.pc = "done" /\ ~vault.provider.ok
    /\ vault.provider.exc = "ReadTimeout"
    /\ vault.outcome.body.success = FALSE

\* C9: once the provider has answered 2xx with a list of markets, no entry
\* makes the listing fail: the answer has success true and holds every
\* entry that coerces.
C9_OnlyTransportAborts ==
    Listed =>
        /\ vault.outcome.body.success = TRUE
        /\ \A i \in 1..Len(ListedMarkets) :
            parse_market(ListedMarkets[i], vault.chain_id).ok =>
                \E j \in 1..Len(vault.outcome.body.vaults) :
                    vault.outcome.body.vaults[j] =
                        parse_market(ListedMarkets[i], vault.chain_id).v

\* C10: once the server runs, the cache's keys are among "chat" and
\* "search", and no step removes a key or binds it to another instance.
C10_CacheMonotone ==
    [][phase = "running" =>
        /\ DOMAIN Cache \subseteq Recognized
        /\ DOMAIN app_state'["agent_cache"] \subseteq Recognized
        /\ \A t \in DOMAIN Cache :
            /\ t \in DOMAIN app_state'["agent_cache"]
            /\ app_state'["agent_cache"][t] = Cache[t]]_vars

\* both agents are cached and a request was served after that
C10_Witness ==
    /\ phase = "running"
    /\ DOMAIN Cache = Recognized
    /\ \A r \in Requests : reqs[r].kind # "idle"
====
